---- MODULE Spec2Model ----
(***************************************************************************)
(* Model of LLMAPIClient.call_api (src/src/LLMAPIClient.py) together with  *)
(* the Config object it reads (src/src/config.py).                         *)
(*                                                                         *)
(* Encoding of Python / JSON values.  Scalars of a response body are       *)
(* positive integers (strings are abstract ids), each key with its own     *)
(* range of MaxVal values.  A JSON object is a function from (dotted)      *)
(* key paths to values; a key that is not in the object holds Absent, a    *)
(* JSON null holds None, a nested object holds Dict and its members are    *)
(* stored under "parent.child"; an array holds EmptyList or List1 and the  *)
(* members of its first element are stored under "choices[0]. ...".        *)
(***************************************************************************)
EXTENDS Integers, Sequences, FiniteSets, TLC

\* ---------------------------------------------------------------- bounds
MaxVal == 1
MaxDefects == 1

\* ------------------------------------------------------- value encoding
None == 0
Absent == -1
Dict == -2
EmptyList == -3
List1 == -4


NoRole == "<None>"

Services == {"ollama", "openai", "other"}
Urls == {"http://localhost:11434/api/chat"}
ModelNames == {"llama3"}
DefaultRoles == {"user", "assistant"}
RoleArgs == {NoRole, "user", "system"}
Prompts == {"Say hi", "Tell a joke"}

\* ------------------------------------------------------------ config.py
\* The attributes Config.__init__ sets on the config object.
ConfigAttrs ==
    {"SAMPLE_FREQUENCY_NANO_SECONDS", "LLM_SERVICE_KEYWORD",
     "MONITORING_SERVICE_KEYWORD", "MONITORING_START_DELAY",
     "MONITORING_END_DELAY", "DATA_DIR_PATH", "CONFIG_FILE_PATH"}

\* getattr(config, name) succeeds only for an attribute that was set.
HasAttr(name) == name \in ConfigAttrs

\* The set of identifiers the specification calls "the configured
\* OpenAI-API-compatible service set".  config.py does not define it.
CompatibleServices == {"openai"}

\* -------------------------------------------------------- response bodies
OllamaScalarKeys ==
    {"created_at", "total_duration", "load_duration", "prompt_eval_count",
     "prompt_eval_duration", "eval_count", "eval_duration"}
OllamaKeys == OllamaScalarKeys \cup {"message", "message.content"}

OpenAIKeys ==
    {"created", "usage", "usage.prompt_tokens", "usage.completion_tokens",
     "choices", "choices[0].message", "choices[0].message.content"}

AllKeys == OllamaKeys \cup OpenAIKeys

EmptyBody == [k \in AllKeys |-> Absent]

\* the scalars a response may hold under each key: MaxVal values per key,
\* the ranges of different keys disjoint
FirstVal(k) ==
    CASE k = "created_at" -> 10
      [] k = "total_duration" -> 20
      [] k = "load_duration" -> 30
      [] k = "prompt_eval_count" -> 40
      [] k = "prompt_eval_duration" -> 50
      [] k = "eval_count" -> 60
      [] k = "eval_duration" -> 70
      [] k = "message.content" -> 80
      [] k = "created" -> 90
      [] k = "usage.prompt_tokens" -> 100
      [] k = "usage.completion_tokens" -> 110
      [] k = "choices[0].message.content" -> 120
      [] OTHER -> 1

Vals(k) == FirstVal(k) .. (FirstVal(k) + MaxVal - 1)

ScalarAssignments(keys) ==
    {[k \in keys |-> FirstVal(k) + o[k]] : o \in [keys -> 0..(MaxVal - 1)]}

\* the value a well-shaped body holds under a container key
Container(k) ==
    IF k \in {"message", "usage", "choices[0].message"} THEN Dict
    ELSE IF k = "choices" THEN List1
    ELSE None

IsContainerKey(k) == k \in {"message", "usage", "choices", "choices[0].message"}

\* what a defective key may hold instead of its well-shaped value
DefectVals(k) ==
    IF k = "choices" THEN {Absent, None, EmptyList}
    ELSE IF IsContainerKey(k) THEN {Absent, None, 1}
    ELSE {Absent, None}

\* a member of a container that is itself missing does not exist
IsPrefix(p, k) ==
    \/ p = "message" /\ k = "message.content"
    \/ p = "usage" /\ k \in {"usage.prompt_tokens", "usage.completion_tokens"}
    \/ p = "choices" /\ k \in {"choices[0].message", "choices[0].message.content"}
    \/ p = "choices[0].message" /\ k = "choices[0].message.content"

Normalise(b) ==
    [k \in AllKeys |->
        IF \E p \in AllKeys : IsPrefix(p, k) /\ b[p] # Container(p)
        THEN Absent ELSE b[k]]

DefectMaps(D) ==
    {m \in [D -> {Absent, None, 1, EmptyList}] : \A k \in D : m[k] \in DefectVals(k)}

Build(keys, D, base, m) ==
    Normalise([k \in AllKeys |->
        IF k \notin keys THEN Absent
        ELSE IF k \in D THEN m[k]
        ELSE IF IsContainerKey(k) THEN Container(k)
        ELSE base[k]])

\* every well-shaped body over keys, with at most MaxDefects keys made
\* absent, null or mistyped
BodiesOver(keys) ==
    UNION { UNION { { Build(keys, D, base, m) : m \in DefectMaps(D) } :
                    base \in ScalarAssignments({k \in keys : ~IsContainerKey(k)}) } :
            D \in {S \in SUBSET keys : Cardinality(S) <= MaxDefects} }

OllamaBodies == BodiesOver(OllamaKeys)
OpenAIBodies == BodiesOver(OpenAIKeys)
Bodies == OllamaBodies \cup OpenAIBodies

\* ------------------------------------------------------------ the client
VARIABLES
    llm_service, api_url, model_name, self_role,   \* LLMAPIClient attributes
    pc,                \* position inside call_api
    prompt, role_arg, stream,   \* arguments of the running call
    role,              \* the local role after lines 56-57
    data,              \* the request dict built at lines 59-63
    response,          \* what requests.post / raise_for_status produced
    response_json,     \* result of json.loads(response.text)
    posts,             \* HTTP POSTs issued by the running call
    stdout,            \* lines printed by the running call
    examined,          \* self.llm_service has been compared (line 74)
    outcome            \* how the call ended

vars == <<llm_service, api_url, model_name, self_role, pc, prompt, role_arg,
          stream, role, data, response, response_json, posts, stdout,
          examined, outcome>>

client == <<llm_service, api_url, model_name, self_role>>

NullRecord ==
    [model_name |-> "", created_at |-> None, total_duration |-> None,
     load_duration |-> None, prompt_token_length |-> None,
     prompt_duration |-> None, response_token_length |-> None,
     response_duration |-> None, prompt |-> "", response |-> None]

Pending == [kind |-> "pending", exc |-> "", record |-> NullRecord]
Raise(e) == [kind |-> "raise", exc |-> e, record |-> NullRecord]
ReturnNone == [kind |-> "return_none", exc |-> "", record |-> NullRecord]
ReturnRequest == [kind |-> "return_request", exc |-> "", record |-> NullRecord]
ReturnRecord(r) == [kind |-> "return_record", exc |-> "", record |-> r]

NoData == [model |-> "", messages |-> <<>>, stream |-> FALSE]
NoResponse == [status |-> "none", kind |-> "none", body |-> EmptyBody]
NoJson == [kind |-> "unset", body |-> EmptyBody]

\* dict.get(key): the value, or None when the key is not in the dict
Get(d, k) == IF d[k] = Absent THEN None ELSE d[k]

\* variant: the role argument is ignored and the default always used
EffectiveRoleIgnoresArg(r, default) == default

\* role = self.role if role is None
EffectiveRole(r, default) == IF r = NoRole THEN default ELSE r

\* the dict built at lines 59-63
RequestData(m, r, p, st) ==
    [model |-> m, messages |-> <<[role |-> r, content |-> p]>>, stream |-> st]

\* json.loads(response.text)
JsonLoads(resp) ==
    IF resp.kind = "malformed" THEN [ok |-> FALSE, value |-> NoJson]
    ELSE [ok |-> TRUE, value |-> [kind |-> resp.kind, body |-> resp.body]]

\* variant: the two evaluation-phase durations are read from each other's key
OllamaRecordSwapped(b, m, p) ==
    [model_name |-> m,
     created_at |-> Get(b, "created_at"),
     total_duration |-> Get(b, "total_duration"),
     load_duration |-> Get(b, "load_duration"),
     prompt_token_length |-> Get(b, "prompt_eval_count"),
     prompt_duration |-> Get(b, "eval_duration"),
     response_token_length |-> Get(b, "eval_count"),
     response_duration |-> Get(b, "prompt_eval_duration"),
     prompt |-> p,
     response |-> Get(b, "message.content")]

\* variant: the prompt field echoes the model name instead of the prompt
OllamaRecordWrongPrompt(b, m, p) ==
    [model_name |-> m,
     created_at |-> Get(b, "created_at"),
     total_duration |-> Get(b, "total_duration"),
     load_duration |-> Get(b, "load_duration"),
     prompt_token_length |-> Get(b, "prompt_eval_count"),
     prompt_duration |-> Get(b, "prompt_eval_duration"),
     response_token_length |-> Get(b, "eval_count"),
     response_duration |-> Get(b, "eval_duration"),
     prompt |-> m,
     response |-> Get(b, "message.content")]

\* the dict literal of lines 75-86, for a parsed JSON object
OllamaRecord(b, m, p) ==
    [model_name |-> m,
     created_at |-> Get(b, "created_at"),
     total_duration |-> Get(b, "total_duration"),
     load_duration |-> Get(b, "load_duration"),
     prompt_token_length |-> Get(b, "prompt_eval_count"),
     prompt_duration |-> Get(b, "prompt_eval_duration"),
     response_token_length |-> Get(b, "eval_count"),
     response_duration |-> Get(b, "eval_duration"),
     prompt |-> p,
     response |-> Get(b, "message.content")]

\* lines 75-86: a value without .get (a non-object body, or a message that
\* is missing, null or a scalar) raises AttributeError
OllamaBranch(rj, m, p) ==
    IF rj.kind # "object" THEN Raise("AttributeError")
    ELSE IF Get(rj.body, "message") # Dict THEN Raise("AttributeError")
    ELSE ReturnRecord(OllamaRecord(rj.body, m, p))

\* the dict literal of lines 99-110, for a parsed JSON object
OpenAIRecord(b, m, p) ==
    [model_name |-> m,
     created_at |-> Get(b, "created"),
     total_duration |-> None,
     load_duration |-> None,
     prompt_token_length |-> Get(b, "usage.prompt_tokens"),
     prompt_duration |-> None,
     response_token_length |-> Get(b, "usage.completion_tokens"),
     response_duration |-> None,
     prompt |-> p,
     response |-> Get(b, "choices[0].message.content")]

\* lines 99-110, in evaluation order
OpenAIBranch(rj, m, p) ==
    IF rj.kind # "object" THEN Raise("AttributeError")
    ELSE IF Get(rj.body, "usage") # Dict THEN Raise("AttributeError")
    ELSE IF Get(rj.body, "choices") = EmptyList THEN Raise("IndexError")
    ELSE IF Get(rj.body, "choices") # List1 THEN Raise("TypeError")
    ELSE IF Get(rj.body, "choices[0].message") # Dict THEN Raise("AttributeError")
    ELSE ReturnRecord(OpenAIRecord(rj.body, m, p))

\* lines 74-112: the if / elif chain and the final return
Dispatch(service, rj, m, p) ==
    IF service = "ollama" THEN OllamaBranch(rj, m, p)
    ELSE IF ~HasAttr("OPENAI_API_COMPATIBLE_SERVICES") THEN Raise("AttributeError")
    ELSE IF service \in CompatibleServices THEN OpenAIBranch(rj, m, p)
    ELSE ReturnRequest

\* ------------------------------------------------------------------ Init
\* LLMAPIClient.__init__: a pure data holder
Init ==
    /\ llm_service \in Services
    /\ api_url \in Urls
    /\ model_name \in ModelNames
    /\ self_role \in DefaultRoles
    /\ pc = "idle"
    /\ prompt = ""
    /\ role_arg = NoRole
    /\ stream = FALSE
    /\ role = NoRole
    /\ data = NoData
    /\ response = NoResponse
    /\ response_json = NoJson
    /\ posts = <<>>
    /\ stdout = <<>>
    /\ examined = FALSE
    /\ outcome = Pending

\* --------------------------------------------------------------- actions
\* call_api entered (lines 43-63): resolve the role, build the request
CallApi ==
    /\ pc \in {"idle", "done"}
    /\ \E p \in Prompts, r \in RoleArgs, st \in BOOLEAN :
          /\ prompt' = p
          /\ role_arg' = r
          /\ stream' = st
          /\ role' = EffectiveRole(r, self_role)
          /\ data' = RequestData(model_name, EffectiveRole(r, self_role), p, st)
    /\ response' = NoResponse
    /\ response_json' = NoJson
    /\ posts' = <<>>
    /\ stdout' = <<>>
    /\ examined' = FALSE
    /\ outcome' = Pending
    /\ pc' = "post"
    /\ UNCHANGED client

\* variant: the except handler prints but does not return
PostFailsFallsThrough ==
    /\ pc = "post"
    /\ \E e \in {"ConnectionError", "HTTPError"} :
          /\ response' = [status |-> e, kind |-> "none", body |-> EmptyBody]
          /\ stdout' = Append(stdout, [text |-> "Request failed: ", cause |-> e])
    /\ posts' = Append(posts, [url |-> api_url, json |-> data])
    /\ pc' = "branch"
    /\ UNCHANGED <<client, prompt, role_arg, stream, role, data,
                   response_json, examined, outcome>>

\* lines 65-70: the POST or raise_for_status raised a RequestException;
\* the handler prints and returns None
PostFails ==
    /\ pc = "post"
    /\ \E e \in {"ConnectionError", "HTTPError"} :
          /\ response' = [status |-> e, kind |-> "none", body |-> EmptyBody]
          /\ stdout' = Append(stdout, [text |-> "Request failed: ", cause |-> e])
    /\ posts' = Append(posts, [url |-> api_url, json |-> data])
    /\ outcome' = ReturnNone
    /\ pc' = "done"
    /\ UNCHANGED <<client, prompt, role_arg, stream, role, data,
                   response_json, examined>>

\* lines 65-67: the POST returned a success status with some body text
PostOk ==
    /\ pc = "post"
    /\ \/ \E k \in {"malformed", "nonobject"} :
             response' = [status |-> "ok", kind |-> k, body |-> EmptyBody]
       \/ \E b \in Bodies :
             response' = [status |-> "ok", kind |-> "object", body |-> b]
    /\ posts' = Append(posts, [url |-> api_url, json |-> data])
    /\ pc' = "parse"
    /\ UNCHANGED <<client, prompt, role_arg, stream, role, data,
                   response_json, stdout, examined, outcome>>

\* line 72: json.loads; JSONDecodeError is not caught
ParseJson ==
    /\ pc = "parse"
    /\ LET r == JsonLoads(response) IN
          IF r.ok
          THEN /\ response_json' = r.value
               /\ pc' = "branch"
               /\ outcome' = outcome
          ELSE /\ response_json' = response_json
               /\ pc' = "done"
               /\ outcome' = Raise("JSONDecodeError")
    /\ UNCHANGED <<client, prompt, role_arg, stream, role, data, response,
                   posts, stdout, examined>>

\* lines 74-112: branch on the service identifier and return
Branch ==
    /\ pc = "branch"
    /\ examined' = TRUE
    /\ outcome' = Dispatch(llm_service, response_json, model_name, prompt)
    /\ pc' = "done"
    /\ UNCHANGED <<client, prompt, role_arg, stream, role, data, response,
                   response_json, posts, stdout>>

Next == CallApi \/ PostFails \/ PostOk \/ ParseJson \/ Branch

Spec == Init /\ [][Next]_vars

TypeOK ==
    /\ pc \in {"idle", "post", "parse", "branch", "done"}
    /\ outcome.kind \in {"pending", "raise", "return_none", "return_request", "return_record"}

\* ---------------------------------------------------------- properties
Done == pc = "done"
PostSucceeded == response.status = "ok"
PostFailed == response.status \in {"ConnectionError", "HTTPError"}
Present(k) == response.body[k] \notin {Absent, None}

ValidOllama ==
    /\ response.kind = "object"
    /\ response.body["message"] = Dict
    /\ \A k \in OllamaScalarKeys \cup {"message.content"} : Present(k)

ValidOpenAI ==
    /\ response.kind = "object"
    /\ response.body["usage"] = Dict
    /\ response.body["choices"] = List1
    /\ response.body["choices[0].message"] = Dict
    /\ \A k \in {"created", "usage.prompt_tokens", "usage.completion_tokens",
                 "choices[0].message.content"} : Present(k)

Unsupported == llm_service \notin {"ollama"} \cup CompatibleServices

\* C1: an "ollama" client whose POST succeeds with a valid ollama-shaped
\* body returns a record that maps message.content, created_at, the four
\* durations and the two token counts from their keys, carries the client's
\* model name, and has no null duration.
C1_OllamaMapping ==
    (Done /\ llm_service = "ollama" /\ PostSucceeded /\ ValidOllama) =>
        /\ outcome.kind = "return_record"
        /\ outcome.record.response = response.body["message.content"]
        /\ outcome.record.created_at = response.body["created_at"]
        /\ outcome.record.total_duration = response.body["total_duration"]
        /\ outcome.record.load_duration = response.body["load_duration"]
        /\ outcome.record.prompt_token_length = response.body["prompt_eval_count"]
        /\ outcome.record.prompt_duration = response.body["prompt_eval_duration"]
        /\ outcome.record.response_token_length = response.body["eval_count"]
        /\ outcome.record.response_duration = response.body["eval_duration"]
        /\ outcome.record.model_name = model_name
        /\ outcome.record.total_duration # None
        /\ outcome.record.load_duration # None
        /\ outcome.record.prompt_duration # None
        /\ outcome.record.response_duration # None

C1_Witness ==
    /\ Done /\ llm_service = "ollama" /\ PostSucceeded /\ ValidOllama
    /\ outcome.kind = "return_record"

\* C2: a client of a configured OpenAI-compatible service whose POST
\* succeeds with a valid OpenAI-shaped body returns a record with response,
\* token counts and created_at mapped and all four durations null.
C2_OpenAIMapping ==
    (Done /\ llm_service \in CompatibleServices /\ PostSucceeded /\ ValidOpenAI) =>
        /\ outcome.kind = "return_record"
        /\ outcome.record.response = response.body["choices[0].message.content"]
        /\ outcome.record.prompt_token_length = response.body["usage.prompt_tokens"]
        /\ outcome.record.response_token_length = response.body["usage.completion_tokens"]
        /\ outcome.record.created_at = response.body["created"]
        /\ outcome.record.total_duration = None
        /\ outcome.record.load_duration = None
        /\ outcome.record.prompt_duration = None
        /\ outcome.record.response_duration = None

\* C3: a call whose POST fails (network failure or non-success status) ends
\* in a RequestError raised to the caller, never in a returned value.
C3_RequestError ==
    (Done /\ PostFailed) => outcome = Raise("RequestError")

\* C4: a call on a client whose service is neither "ollama" nor in the
\* compatible set fails with UnsupportedServiceError and returns no value.
C4_UnsupportedService ==
    (Done /\ Unsupported) => outcome = Raise("UnsupportedServiceError")

\* C5: an "ollama" call whose POST succeeds with a JSON object that has no
\* message key fails with ResponseShapeError.
C5_MissingMessage ==
    (Done /\ llm_service = "ollama" /\ PostSucceeded /\ response.kind = "object"
          /\ response.body["message"] = Absent) =>
        outcome = Raise("ResponseShapeError")

\* C6: a call whose POST succeeds with a body that is not valid JSON fails
\* with ResponseParseError, whatever the service identifier.
C6_MalformedJson ==
    (Done /\ PostSucceeded /\ response.kind = "malformed") =>
        outcome = Raise("ResponseParseError")

\* C7: every returned record carries in its prompt field exactly the prompt
\* passed to the call.
C7_PromptEchoed ==
    outcome.kind = "return_record" => outcome.record.prompt = prompt

C7_Witness ==
    /\ Done /\ outcome.kind = "return_record"
    /\ prompt = "Tell a joke"
    /\ ~ValidOllama

\* C8: a returned record never has a null response field.
C8_ResponseNotNull ==
    outcome.kind = "return_record" => outcome.record.response # None

\* C9: once the POST step of a call is over, exactly one POST has been
\* issued, to the client's URL, with model = the client's model name, one
\* message whose role is the role argument (the client's default when none
\* was given) and whose content is the prompt, and the stream flag; before
\* the POST step none has been issued.
C9_SinglePost ==
    /\ pc \in {"idle", "post"} => posts = <<>>
    /\ pc \in {"parse", "branch", "done"} =>
          posts = << [url |-> api_url,
                      json |-> [model |-> model_name,
                                messages |-> << [role |-> IF role_arg = NoRole
                                                          THEN self_role
                                                          ELSE role_arg,
                                                 content |-> prompt] >>,
                                stream |-> stream]] >>

C9_Witness ==
    /\ Done /\ PostFailed /\ Len(posts) = 1
    /\ role_arg = "system" /\ self_role = "user" /\ stream

\* C10: the service identifier is examined only after a POST that
\* succeeded; a call whose POST failed ends with the request-failure
\* outcome without the identifier examined; a call on an unsupported
\* service has performed its POST when it ends.
C10_PostBeforeBranch ==
    /\ examined => (Len(posts) = 1 /\ PostSucceeded)
    /\ PostFailed => ~examined
    /\ (Done /\ PostFailed) => outcome = ReturnNone
    /\ (Done /\ Unsupported) => Len(posts) = 1

C10_Witness ==
    /\ Done /\ Unsupported /\ examined /\ Len(posts) = 1
    /\ outcome.kind = "raise"

====
